---- MODULE Spec2Model ----
(***************************************************************************)
(* Dependency analyser: the tree-sitter based extractor                    *)
(* (src/src/analyser/dependency_analyser_lib.rs), the report types         *)
(* (src/part01/src/common/types.rs), the type normalizer of the            *)
(* line-based extractor (src/part02/src/dependency.rs) and the GUI that    *)
(* runs that extractor in background tasks (src/part02/src/app_state.rs).  *)
(*                                                                         *)
(* A Rust String is modelled as a sequence of one-character strings, so    *)
(* that splitting, trimming, suffix stripping and the byte-wise ordering   *)
(* used by Vec::sort are computed and not assumed.                         *)
(***************************************************************************)
EXTENDS Integers, Sequences, FiniteSets, TLC

VARIABLES
    raw,            \* normalizer: the raw type string handed to normalize_type
    normalized,     \* normalizer: the Option<String> it returned
    report,         \* flattening: the ClassDepsReport tree get_dependencies is called on
    flat,           \* flattening: the Vec<String> the last call returned
    flat0,          \* flattening: the Vec<String> the first call returned
    how,            \* flattening: how `report` came about: "built", "permuted", "reflattened"
    fs,             \* analyser: the files of the analysed folder, path -> [status, text]
    root_exists,    \* analyser: the analysed folder exists
    call,           \* analyser: the aggregation that is running: "idle", "package", "project"
    todo,           \* analyser: the directory entries the running loop has not reached
    dependencies,   \* analyser: the running call's `dependencies` vector
    class_file,     \* analyser: the path get_class_dependencies was called with
    class_result,   \* analyser: what get_class_dependencies returned
    pkg_result,     \* analyser: what get_package_dependencies returned
    proj_result,    \* analyser: what get_project_dependencies returned
    printed,        \* analyser: the number of lines get_package_dependencies printed
    input_value,    \* GUI: AppState::input_value, the project path typed in
    project_dependencies,   \* GUI: the shared Arc<RwLock<Vec<(String, String)>>>
    handle,         \* GUI: AppState::handle, the diagram on display
    notifier,       \* GUI: the watch channel has a change the subscription has not seen
    asks,           \* GUI: the number of AskDependency messages handled
    tasks           \* GUI: the analyses spawned by Task::perform, in spawn order

NormVars == <<raw, normalized>>
FlatVars == <<report, flat, flat0, how>>
AnalyserVars ==
    <<fs, root_exists, call, todo, dependencies, class_file, class_result, pkg_result,
      proj_result, printed>>
GuiVars == <<input_value, project_dependencies, handle, notifier, asks, tasks>>
vars == <<NormVars, FlatVars, AnalyserVars, GuiVars>>

(***************************************************************************)
(* Strings                                                                 *)
(***************************************************************************)

\* The printable ASCII characters in code order, starting at 32 (space).
\* The double quote, the backslash and the backquote are spelled out; no
\* modelled text uses them.
AsciiPrintable ==
    << " ", "!", "dquote", "#", "$", "%", "&", "'", "(", ")", "*", "+", ",", "-", ".", "/",
       "0", "1", "2", "3", "4", "5", "6", "7", "8", "9", ":", ";", "<", "=", ">", "?",
       "@", "A", "B", "C", "D", "E", "F", "G", "H", "I", "J", "K", "L", "M", "N", "O",
       "P", "Q", "R", "S", "T", "U", "V", "W", "X", "Y", "Z", "[", "bslash", "]", "^", "_",
       "bquote", "a", "b", "c", "d", "e", "f", "g", "h", "i", "j", "k", "l", "m", "n", "o",
       "p", "q", "r", "s", "t", "u", "v", "w", "x", "y", "z", "{", "|", "}", "~" >>

\* The byte value of a character (str's Ord compares the UTF-8 bytes).
CharCode(c) == 31 + (CHOOSE i \in 1..Len(AsciiPrintable) : AsciiPrintable[i] = c)

\* a < b in the lexicographic byte order of Rust's `impl Ord for str`.
RECURSIVE StrLess(_, _)
StrLess(a, b) ==
    IF b = <<>> THEN FALSE
    ELSE IF a = <<>> THEN TRUE
    ELSE IF Head(a) = Head(b) THEN StrLess(Tail(a), Tail(b))
    ELSE CharCode(Head(a)) < CharCode(Head(b))

StrLeq(a, b) == a = b \/ StrLess(a, b)

Range(s) == {s[i] : i \in 1..Len(s)}

\* s ends with the pattern pat (str::ends_with).
EndsWith(s, pat) ==
    /\ Len(s) >= Len(pat)
    /\ SubSeq(s, Len(s) - Len(pat) + 1, Len(s)) = pat

\* pat occurs in s (str::contains).
Contains(s, pat) ==
    \E i \in 1..(Len(s) - Len(pat) + 1) : SubSeq(s, i, i + Len(pat) - 1) = pat

\* char::is_whitespace, on the characters the model uses.
IsWhitespace(c) == c \in {" "}

(***************************************************************************)
(* Type normalizer (part02/src/dependency.rs)                              *)
(***************************************************************************)

\* lazy_static EXCLUDED: primitives, keywords, control flow.
EXCLUDED ==
    { <<"i","n","t">>, <<"l","o","n","g">>, <<"s","h","o","r","t">>, <<"b","y","t","e">>, <<"c","h","a","r">>, <<"f","l","o","a","t">>, <<"d","o","u","b","l","e">>,
      <<"b","o","o","l","e","a","n">>, <<"v","o","i","d">>,
      <<"n","e","w">>, <<"r","e","t","u","r","n">>, <<"p","u","b","l","i","c">>, <<"p","r","o","t","e","c","t","e","d">>, <<"p","r","i","v","a","t","e">>, <<"s","t","a","t","i","c">>,
      <<"f","i","n","a","l">>, <<"a","b","s","t","r","a","c","t">>,
      <<"i","f">>, <<"e","l","s","e">>, <<"f","o","r">>, <<"w","h","i","l","e">>, <<"s","w","i","t","c","h">>, <<"c","a","s","e">>, <<"d","e","f","a","u","l","t">>,
      <<"b","r","e","a","k">>, <<"c","o","n","t","i","n","u","e">>,
      <<"t","r","y">>, <<"c","a","t","c","h">>, <<"f","i","n","a","l","l","y">>, <<"t","h","r","o","w">>, <<"t","h","r","o","w","s">>, <<"s","y","n","c","h","r","o","n","i","z","e","d">> }

None == [tag |-> "None", val |-> <<>>]
Some(v) == [tag |-> "Some", val |-> v]
Pending == [tag |-> "Pending", val |-> <<>>]

\* raw.split(ch).next(): the text before the first occurrence of ch.
RECURSIVE SplitFirst(_, _)
SplitFirst(s, ch) ==
    IF s = <<>> \/ Head(s) = ch THEN <<>>
    ELSE <<Head(s)>> \o SplitFirst(Tail(s), ch)

\* str::trim_end_matches(pat): the suffix pat is removed as long as it matches.
RECURSIVE TrimEndMatches(_, _)
TrimEndMatches(s, pat) ==
    IF EndsWith(s, pat) THEN TrimEndMatches(SubSeq(s, 1, Len(s) - Len(pat)), pat)
    ELSE s

RECURSIVE TrimStart(_)
TrimStart(s) ==
    IF s # <<>> /\ IsWhitespace(Head(s)) THEN TrimStart(Tail(s)) ELSE s

RECURSIVE TrimEnd(_)
TrimEnd(s) ==
    IF s # <<>> /\ IsWhitespace(s[Len(s)]) THEN TrimEnd(SubSeq(s, 1, Len(s) - 1)) ELSE s

\* str::trim
Trim(s) == TrimStart(TrimEnd(s))

\* A slip the normalizer could have: whitespace trimmed before the array
\* marker is stripped.
normalize_type_trim_first(r) ==
    LET without_generics == SplitFirst(r, "<")
        ty == TrimEndMatches(Trim(without_generics), <<"[","]">>)
    IN  IF ty = <<>> \/ ty \in EXCLUDED THEN None ELSE Some(ty)

normalize_type(r) ==
    LET without_generics == SplitFirst(r, "<")
        without_array == TrimEndMatches(without_generics, <<"[","]">>)
        ty == Trim(without_array)
    IN  IF ty = <<>> \/ ty \in EXCLUDED THEN None ELSE Some(ty)

(***************************************************************************)
(* Report types and flattening (part01/src/common/types.rs)                *)
(***************************************************************************)

\* struct ClassDepsReport { class_name, class_deps, nested_classes }
ClassDepsReport(name, deps, nested) ==
    [class_name |-> name, class_deps |-> deps, nested_classes |-> nested]

\* The place of x in a sorted vector: after every element that is <= x.
RECURSIVE InsertSorted(_, _)
InsertSorted(x, s) ==
    IF s = <<>> THEN <<x>>
    ELSE IF StrLess(x, Head(s)) THEN <<x>> \o s
    ELSE <<Head(s)>> \o InsertSorted(x, Tail(s))

\* Vec<String>::sort: ascending in the byte order of the strings.
RECURSIVE SortStrings(_)
SortStrings(s) ==
    IF s = <<>> THEN <<>>
    ELSE InsertSorted(s[Len(s)], SortStrings(SubSeq(s, 1, Len(s) - 1)))

\* Vec::dedup: of consecutive equal elements only the first is kept.
RECURSIVE Dedup(_)
Dedup(s) ==
    IF Len(s) <= 1 THEN s
    ELSE IF s[1] = s[2] THEN Dedup(Tail(s))
    ELSE <<s[1]>> \o Dedup(Tail(s))

\* A slip get_dependencies could have: the dedup() call is missing.
RECURSIVE get_dependencies_no_dedup(_)
get_dependencies_no_dedup(r) ==
    LET RECURSIVE Nested(_)
        Nested(cs) ==
            IF cs = <<>> THEN <<>>
            ELSE get_dependencies_no_dedup(Head(cs)) \o Nested(Tail(cs))
    IN  SortStrings(r.class_deps \o Nested(r.nested_classes))

\* A slip get_dependencies could have: the sort() call is missing.
RECURSIVE get_dependencies_no_sort(_)
get_dependencies_no_sort(r) ==
    LET RECURSIVE Nested(_)
        Nested(cs) ==
            IF cs = <<>> THEN <<>>
            ELSE get_dependencies_no_sort(Head(cs)) \o Nested(Tail(cs))
    IN  Dedup(r.class_deps \o Nested(r.nested_classes))

\* ClassDepsReport::get_dependencies
RECURSIVE get_dependencies(_)
get_dependencies(r) ==
    LET RECURSIVE Nested(_)
        Nested(cs) ==
            IF cs = <<>> THEN <<>>
            ELSE get_dependencies(Head(cs)) \o Nested(Tail(cs))
        all == r.class_deps \o Nested(r.nested_classes)
    IN  Dedup(SortStrings(all))

(***************************************************************************)
(* Syntax trees (tree_sitter::Node as the analyser reads it)               *)
(*                                                                         *)
(* A node has a kind, the text of its span, a flag telling named nodes     *)
(* from anonymous tokens, and its children in order, each under an         *)
(* optional grammar field name.                                            *)
(***************************************************************************)

Node(kind, text, children) ==
    [kind |-> kind, text |-> text, named |-> TRUE, children |-> children]
Leaf(kind, text) == Node(kind, text, <<>>)
Tok(kind) == [kind |-> kind, text |-> <<>>, named |-> FALSE, children |-> <<>>]
Fld(f, n) == [field |-> f, node |-> n]
U(n) == [field |-> "", node |-> n]

\* Node::child(i) for i in 0..child_count()
ChildNodes(n) == [i \in 1..Len(n.children) |-> n.children[i].node]

RECURSIVE SelectNamed(_)
SelectNamed(s) ==
    IF s = <<>> THEN <<>>
    ELSE IF Head(s).named THEN <<Head(s)>> \o SelectNamed(Tail(s))
    ELSE SelectNamed(Tail(s))

\* Node::named_child(i) for i in 0..named_child_count()
NamedChildNodes(n) == SelectNamed(ChildNodes(n))

\* Node::child_by_field_name(f).is_some()
HasField(n, f) == \E i \in 1..Len(n.children) : n.children[i].field = f

\* Node::child_by_field_name(f).unwrap(): the first child under the field
FieldNode(n, f) ==
    LET i == CHOOSE k \in 1..Len(n.children) :
                 /\ n.children[k].field = f
                 /\ \A j \in 1..(k - 1) : n.children[j].field # f
    IN  n.children[i].node

\* The concatenation of Op(s[1]), ..., Op(s[n]).
RECURSIVE ConcatMap(_, _)
ConcatMap(Op(_), s) ==
    IF s = <<>> THEN <<>> ELSE Op(Head(s)) \o ConcatMap(Op, Tail(s))

(***************************************************************************)
(* Class extractor (src/analyser/dependency_analyser_lib.rs)               *)
(***************************************************************************)

\* fn resolve_field(node, fields) -> Result<Node, String>
RECURSIVE resolve_field(_, _)
resolve_field(node, fields) ==
    IF fields = <<>> THEN [ok |-> TRUE, node |-> node]
    ELSE IF HasField(node, Head(fields))
         THEN resolve_field(FieldNode(node, Head(fields)), Tail(fields))
         ELSE [ok |-> FALSE, node |-> node]

DeclaratorChain == <<"declarator", "value", "type">>

\* The block repeated for every kind of declaration: when `owner` has a
\* "type" field, push the type found through declarator -> value -> type
\* from `from` (if that chain resolves), then the text of the "type" field.
PushTypes(owner, from) ==
    IF HasField(owner, "type")
    THEN (IF resolve_field(from, DeclaratorChain).ok
          THEN <<resolve_field(from, DeclaratorChain).node.text>>
          ELSE <<>>)
         \o <<FieldNode(owner, "type").text>>
    ELSE <<>>

\* The formal_parameter arm: the chain starts at the type node itself.
PushParameterTypes(param) ==
    IF param.kind = "formal_parameter" /\ HasField(param, "type")
    THEN LET t == FieldNode(param, "type")
         IN  (IF resolve_field(t, DeclaratorChain).ok
              THEN <<resolve_field(t, DeclaratorChain).node.text>>
              ELSE <<>>)
             \o <<t.text>>
    ELSE <<>>

\* One child of a method body.
PushStatementTypes(body_field) ==
    IF body_field.kind \in {"local_variable_declaration", "return_statement"}
    THEN PushTypes(body_field, body_field)
    ELSE IF body_field.kind = "expression_statement"
    THEN LET OfCreation(obj_creation_node) ==
                 IF obj_creation_node.kind = "object_creation_expression"
                 THEN PushTypes(obj_creation_node, obj_creation_node)
                 ELSE <<>>
             OfExpression(expression_node) ==
                 IF expression_node.kind = "method_invocation"
                 THEN ConcatMap(OfCreation, ChildNodes(expression_node))
                 ELSE <<>>
         IN  ConcatMap(OfExpression, ChildNodes(body_field))
    ELSE <<>>

\* One child of a class body.
PushMemberTypes(nd) ==
    IF nd.kind \in {"field_declaration", "constructor_declaration", "object_creation_expression"}
    THEN PushTypes(nd, nd)
    ELSE IF nd.kind = "method_declaration"
    THEN PushTypes(nd, nd)
         \o (IF HasField(nd, "parameters")
             THEN ConcatMap(PushParameterTypes, ChildNodes(FieldNode(nd, "parameters")))
             ELSE <<>>)
         \o (IF HasField(nd, "body")
             THEN ConcatMap(PushStatementTypes, ChildNodes(FieldNode(nd, "body")))
             ELSE <<>>)
    ELSE <<>>

\* fn collect_class_dependencies(class_node, code) -> Vec<String>
\* (the class has a body: see ClassesPanic)
collect_class_dependencies(class_node) ==
    LET extends ==
            IF HasField(class_node, "superclass")
            THEN LET superc == FieldNode(class_node, "superclass")
                     n == IF HasField(superc, "name") THEN FieldNode(superc, "name") ELSE superc
                 IN  <<n.text>>
            ELSE <<>>
        implements ==
            IF HasField(class_node, "super_interfaces")
            THEN LET ifaces == NamedChildNodes(FieldNode(class_node, "super_interfaces"))
                 IN  [j \in 1..Len(ifaces) |-> ifaces[j].text]
            ELSE <<>>
        cursor == FieldNode(class_node, "body")
        deps == extends \o implements \o ConcatMap(PushMemberTypes, ChildNodes(cursor))
    IN  Dedup(SortStrings(deps))

\* let prims = [...] in filter_dependencies
Prims ==
    { <<"b","y","t","e">>, <<"s","h","o","r","t">>, <<"i","n","t">>, <<"l","o","n","g">>, <<"f","l","o","a","t">>, <<"d","o","u","b","l","e">>, <<"b","o","o","l","e","a","n">>,
      <<"c","h","a","r">>, <<"v","o","i","d">> }

RECURSIVE FilterOut(_, _)
FilterOut(s, drop) ==
    IF s = <<>> THEN <<>>
    ELSE IF Head(s) \in drop THEN FilterOut(Tail(s), drop)
    ELSE <<Head(s)>> \o FilterOut(Tail(s), drop)

\* A slip filter_dependencies could have: nothing is filtered.
filter_dependencies_keep_all(deps) == deps

\* fn filter_dependencies(dependencies) -> Vec<String>
filter_dependencies(deps) == FilterOut(deps, Prims)

\* fn collect_file_imports(root, code) -> Vec<String>
collect_file_imports(root) ==
    LET OfChild(child) ==
            IF child.kind = "import_declaration" /\ NamedChildNodes(child) # <<>>
            THEN LET named == NamedChildNodes(child)
                     path == named[1].text
                     wild == IF Len(named) >= 2 /\ named[2].kind = "asterisk"
                             THEN path \o <<".","*">> ELSE path
                 IN  <<IF HasField(child, "static") THEN <<"s","t","a","t","i","c"," ">> \o wild ELSE wild>>
            ELSE <<>>
    IN  ConcatMap(OfChild, NamedChildNodes(root))

\* A slip collect_all_classes could have: the body is not visited, so every
\* report is without nested classes.
collect_all_classes_top_level_only(node) ==
    LET OfChild(child) ==
            IF child.kind = "class_declaration"
            THEN <<ClassDepsReport(FieldNode(child, "name").text,
                                   collect_file_imports(node)
                                       \o filter_dependencies(collect_class_dependencies(child)),
                                   <<>>)>>
            ELSE <<>>
    IN  ConcatMap(OfChild, NamedChildNodes(node))

\* fn collect_all_classes(node, code) -> Vec<ClassDepsReport>
RECURSIVE collect_all_classes(_)
collect_all_classes(node) ==
    LET OfChild(child) ==
            IF child.kind = "class_declaration"
            THEN LET class_name == FieldNode(child, "name").text
                     nested == IF HasField(child, "body")
                               THEN collect_all_classes(FieldNode(child, "body"))
                               ELSE <<>>
                     file_dependencies == collect_file_imports(node)
                     class_dependencies == filter_dependencies(collect_class_dependencies(child))
                 IN  <<ClassDepsReport(class_name, file_dependencies \o class_dependencies, nested)>>
            ELSE <<>>
    IN  ConcatMap(OfChild, NamedChildNodes(node))

\* The walk of collect_all_classes hits one of its expect() calls: a class
\* declaration without a "name" field, or (in collect_class_dependencies)
\* without a "body" field.
RECURSIVE ClassesPanic(_)
ClassesPanic(node) ==
    \E child \in Range(NamedChildNodes(node)) :
        /\ child.kind = "class_declaration"
        /\ \/ ~HasField(child, "name")
           \/ ~HasField(child, "body")
           \/ ClassesPanic(FieldNode(child, "body"))

(***************************************************************************)
(* Source texts and their syntax trees (what Parser::parse returns for     *)
(* them under the tree-sitter Java grammar).                               *)
(***************************************************************************)

Identifier(name) == Leaf("identifier", name)
TypeId(name) == Leaf("type_identifier", name)

\* new T(...)
ObjectCreation(type) ==
    Node("object_creation_expression", <<>>,
         <<U(Tok("new")), Fld("type", type), Fld("arguments", Leaf("argument_list", <<"(",")">>))>>)

\* name  /  name = value
Declarator(name) == Node("variable_declarator", <<>>, <<Fld("name", Identifier(name))>>)
DeclaratorInit(name, value) ==
    Node("variable_declarator", <<>>,
         <<Fld("name", Identifier(name)), U(Tok("=")), Fld("value", value)>>)

\* T declarator;
FieldDecl(type, declarator) ==
    Node("field_declaration", <<>>,
         <<Fld("type", type), Fld("declarator", declarator), U(Tok(";"))>>)
LocalDecl(type, declarator) ==
    Node("local_variable_declaration", <<>>,
         <<Fld("type", type), Fld("declarator", declarator), U(Tok(";"))>>)

\* { members }
Braced(kind, members) ==
    Node(kind, <<>>,
         <<U(Tok("{"))>> \o [i \in 1..Len(members) |-> U(members[i])] \o <<U(Tok("}"))>>)

\* class name heritage { members }
ClassDecl(name, heritage, members) ==
    Node("class_declaration", <<>>,
         <<U(Tok("class")), Fld("name", Identifier(name))>> \o heritage
             \o <<Fld("body", Braced("class_body", members))>>)

\* import path;
ImportDecl(path) ==
    Node("import_declaration", <<>>,
         <<U(Tok("import")), U(Leaf("scoped_identifier", path)), U(Tok(";"))>>)

\* import static path.*;
StaticWildcardImportDecl(path) ==
    Node("import_declaration", <<>>,
         <<U(Tok("import")), U(Tok("static")), U(Leaf("scoped_identifier", path)),
           U(Tok(".")), U(Leaf("asterisk", <<"*">>)), U(Tok(";"))>>)

FormalParameter(type, name) ==
    Node("formal_parameter", <<>>, <<Fld("type", type), Fld("name", Identifier(name))>>)

\* class Outer { Inner field; class Inner { String name; } }
TreeOuter ==
    Node("program", <<>>,
      << U(ClassDecl(<<"O","u","t","e","r">>, <<>>,
            << FieldDecl(TypeId(<<"I","n","n","e","r">>), Declarator(<<"f","i","e","l","d">>)),
               ClassDecl(<<"I","n","n","e","r">>, <<>>,
                  << FieldDecl(TypeId(<<"S","t","r","i","n","g">>), Declarator(<<"n","a","m","e">>)) >>) >>)) >>)

\* import java.util.List; class C { List<String> items; }
TreeList ==
    Node("program", <<>>,
      << U(ImportDecl(<<"j","a","v","a",".","u","t","i","l",".","L","i","s","t">>)),
         U(ClassDecl(<<"C">>, <<>>,
            << FieldDecl(Leaf("generic_type", <<"L","i","s","t","<","S","t","r","i","n","g",">">>), Declarator(<<"i","t","e","m","s">>)) >>)) >>)

\* class K { Foo f; }
TreeFoo ==
    Node("program", <<>>,
      << U(ClassDecl(<<"K">>, <<>>,
            << FieldDecl(TypeId(<<"F","o","o">>), Declarator(<<"f">>)) >>)) >>)

\* import static java.lang.Math.*;
\* class M extends Base implements Run {
\*     int n;
\*     int[] xs;
\*     Foo f = new Bar<Foo>();
\*     M(int k) {}
\*     void run(Foo p, int q) { Baz b = new Baz(); new Qux().go(); return; }
\*     class In { long id; }
\* }
TreeMix ==
    Node("program", <<>>,
      << U(StaticWildcardImportDecl(<<"j","a","v","a",".","l","a","n","g",".","M","a","t","h">>)),
         U(ClassDecl(<<"M">>,
            << Fld("superclass",
                   Node("superclass", <<"e","x","t","e","n","d","s"," ","B","a","s","e">>, <<U(Tok("extends")), U(TypeId(<<"B","a","s","e">>))>>)),
               Fld("interfaces",
                   Node("super_interfaces", <<"i","m","p","l","e","m","e","n","t","s"," ","R","u","n">>,
                        <<U(Tok("implements")), U(Node("type_list", <<"R","u","n">>, <<U(TypeId(<<"R","u","n">>))>>))>>)) >>,
            << FieldDecl(Leaf("integral_type", <<"i","n","t">>), Declarator(<<"n">>)),
               FieldDecl(Leaf("array_type", <<"i","n","t","[","]">>), Declarator(<<"x","s">>)),
               FieldDecl(TypeId(<<"F","o","o">>),
                         DeclaratorInit(<<"f">>, ObjectCreation(Leaf("generic_type", <<"B","a","r","<","F","o","o",">">>)))),
               Node("constructor_declaration", <<>>,
                    << Fld("name", Identifier(<<"M">>)),
                       Fld("parameters",
                           Node("formal_parameters", <<>>,
                                << U(Tok("(")),
                                   U(FormalParameter(Leaf("integral_type", <<"i","n","t">>), <<"k">>)),
                                   U(Tok(")")) >>)),
                       Fld("body", Braced("constructor_body", <<>>)) >>),
               Node("method_declaration", <<>>,
                    << Fld("type", Leaf("void_type", <<"v","o","i","d">>)),
                       Fld("name", Identifier(<<"r","u","n">>)),
                       Fld("parameters",
                           Node("formal_parameters", <<>>,
                                << U(Tok("(")),
                                   U(FormalParameter(TypeId(<<"F","o","o">>), <<"p">>)),
                                   U(Tok(",")),
                                   U(FormalParameter(Leaf("integral_type", <<"i","n","t">>), <<"q">>)),
                                   U(Tok(")")) >>)),
                       Fld("body",
                           Braced("block",
                                << LocalDecl(TypeId(<<"B","a","z">>),
                                             DeclaratorInit(<<"b">>, ObjectCreation(TypeId(<<"B","a","z">>)))),
                                   Node("expression_statement", <<>>,
                                        << U(Node("method_invocation", <<>>,
                                                  << Fld("object", ObjectCreation(TypeId(<<"Q","u","x">>))),
                                                     U(Tok(".")),
                                                     Fld("name", Identifier(<<"g","o">>)),
                                                     Fld("arguments", Leaf("argument_list", <<"(",")">>)) >>)),
                                           U(Tok(";")) >>),
                                   Node("return_statement", <<>>, <<U(Tok("return")), U(Tok(";"))>>) >>)) >>),
               ClassDecl(<<"I","n">>, <<>>,
                  << FieldDecl(Leaf("integral_type", <<"l","o","n","g">>), Declarator(<<"i","d">>)) >>) >>)) >>)

\* class Sub extends Base implements Run, Stop { }
\* in the shape of a grammar whose superclass node has a "name" field and whose
\* interface list sits under the field "super_interfaces".
TreeHeritage ==
    Node("program", <<>>,
      << U(ClassDecl(<<"S","u","b">>,
            << Fld("superclass",
                   Node("superclass", <<"e","x","t","e","n","d","s"," ","B","a","s","e">>,
                        <<U(Tok("extends")), Fld("name", TypeId(<<"B","a","s","e">>))>>)),
               Fld("super_interfaces",
                   Node("super_interfaces", <<"i","m","p","l","e","m","e","n","t","s"," ","R","u","n",","," ","S","t","o","p">>,
                        <<U(Tok("implements")), U(TypeId(<<"R","u","n">>)), U(Tok(",")), U(TypeId(<<"S","t","o","p">>))>>)) >>,
            <<>>)) >>)

\* class Broken { Foo f
\* A text with syntax errors still gets a tree: the part that does not fit the
\* grammar lies under an ERROR node.
TreeBroken ==
    Node("program", <<>>,
      << U(Node("ERROR", <<>>,
                << U(Tok("class")), U(Identifier(<<"B","r","o","k","e","n">>)), U(Tok("{")),
                   U(TypeId(<<"F","o","o">>)), U(Identifier(<<"f">>)) >>)) >>)

\* class P { class Q { class R { Foo r; } } interface I { class Hidden { } } }
\* class S { }
TreeDeep ==
    Node("program", <<>>,
      << U(ClassDecl(<<"P">>, <<>>,
            << ClassDecl(<<"Q">>, <<>>,
                  << ClassDecl(<<"R">>, <<>>,
                        << FieldDecl(TypeId(<<"F","o","o">>), Declarator(<<"r">>)) >>) >>),
               Node("interface_declaration", <<>>,
                    << U(Tok("interface")), Fld("name", Identifier(<<"I">>)),
                       Fld("body", Braced("interface_body",
                                          << ClassDecl(<<"H","i","d","d","e","n">>, <<>>, <<>>) >>)) >>) >>)),
         U(ClassDecl(<<"S">>, <<>>, <<>>)) >>)

\* import Foo; class K { Foo f; }
TreeDup ==
    Node("program", <<>>,
      << U(Node("import_declaration", <<>>,
                <<U(Tok("import")), U(Identifier(<<"F","o","o">>)), U(Tok(";"))>>)),
         U(ClassDecl(<<"K">>, <<>>,
            << FieldDecl(TypeId(<<"F","o","o">>), Declarator(<<"f">>)) >>)) >>)

\* The source texts a file may hold, by name.
SourceTexts == {"Outer", "List", "Foo", "Mix", "Heritage", "Broken", "Deep", "Dup"}

\* parser.parse(&contents, None), when it returns a tree
ParseTree(text) ==
    CASE text = "Outer" -> TreeOuter
      [] text = "List" -> TreeList
      [] text = "Foo" -> TreeFoo
      [] text = "Mix" -> TreeMix
      [] text = "Heritage" -> TreeHeritage
      [] text = "Broken" -> TreeBroken
      [] text = "Deep" -> TreeDeep
      [] text = "Dup" -> TreeDup

(***************************************************************************)
(* File system and the three entry points                                  *)
(***************************************************************************)

\* The places a file may have: directly in the analysed folder ("root") or in
\* its subdirectory "sub".
Paths ==
    { [dir |-> "root", name |-> <<"A",".","j","a","v","a">>],
      [dir |-> "root", name |-> <<"B",".","j","a","v","a">>],
      [dir |-> "root", name |-> <<"C",".","j","a","v","a",".","b","a","k">>],
      [dir |-> "sub", name |-> <<"D",".","j","a","v","a">>] }

\* What a file is: one that cannot be opened, one that opens and cannot be
\* read to a string, or a readable text. The text "NoTree" is one for which
\* Parser::parse returns None.
FileStates ==
    { [status |-> "noopen", text |-> ""], [status |-> "noread", text |-> ""] }
        \cup { [status |-> "ok", text |-> t] : t \in SourceTexts \cup {"NoTree"} }

\* A directory entry the traversal cannot read: read_dir and WalkDir yield an
\* Err for it in place of an entry.
BadEntry == [dir |-> "root", name |-> <<"b","a","d">>]
NoEntry == [status |-> "noentry", text |-> ""]

NotCalled == [tag |-> "NotCalled"]
Panicked == [tag |-> "Panic"]
Err(msg) == [tag |-> "Err", msg |-> msg]

\* pub async fn get_class_dependencies(class_src_file) -> Result<Vec<ClassDepsReport>, String>
\* on the file system f; a panic of one of the expect() calls is an outcome.
get_class_dependencies(f, path) ==
    IF path \notin DOMAIN f \/ f[path].status \in {"noopen", "noentry"}
    THEN Err("Failed to open file")
    ELSE IF f[path].status = "noread" THEN Err("Failed to read file")
    ELSE IF f[path].text \notin SourceTexts THEN Panicked
    ELSE IF ClassesPanic(ParseTree(f[path].text)) THEN Panicked
    ELSE [tag |-> "Ok", classes |-> collect_all_classes(ParseTree(f[path].text))]

\* file_name.contains(".java")
is_java_name(file_name) == Contains(file_name, <<".","j","a","v","a">>)

\* for mut class in classes { dependencies.append(&mut class.class_deps) }
append_class_deps(deps, classes) ==
    LET Own(class) == class.class_deps
    IN  deps \o ConcatMap(Own, classes)

\* A slip the project loop could have: the classes' own lists are appended,
\* as in the package loop.
append_flattened_own_only(deps, vector) == append_class_deps(deps, vector)

\* for c in vector { dependencies.append(&mut c.get_dependencies()) }
append_flattened(deps, vector) == deps \o ConcatMap(get_dependencies, vector)

\* The items read_dir(package_folder) yields: the files directly inside and
\* the subdirectory, if there is one; err marks the item that is an Err.
ReadDirEntries(f) ==
    { [dir |-> p.dir, name |-> p.name, is_file |-> TRUE, err |-> (f[p].status = "noentry")]
      : p \in {q \in DOMAIN f : q.dir = "root"} }
        \cup { [dir |-> "root", name |-> <<"s","u","b">>, is_file |-> FALSE, err |-> FALSE]
               : p \in {q \in DOMAIN f : q.dir = "sub"} }

\* The items WalkDir::new(project_folder) yields: the folder itself and
\* everything below it.
WalkDirEntries(f) ==
    { [dir |-> "", name |-> <<"p","r","o","j">>, is_file |-> FALSE, err |-> FALSE] }
        \cup ReadDirEntries(f)
        \cup { [dir |-> p.dir, name |-> p.name, is_file |-> TRUE, err |-> FALSE]
               : p \in {q \in DOMAIN f : q.dir = "sub"} }

\* .filter_map(|e| e.ok())
FilterOk(items) == {e \in items : ~e.err}

PathOf(entry) == [dir |-> entry.dir, name |-> entry.name]

(***************************************************************************)
(* Normalizer specification: one call of normalize_type on a bounded raw   *)
(* string, then the next raw string.                                       *)
(***************************************************************************)

MaxRawLen == 5

RawAlphabet == {"F", "i", "f", "<", "[", "]", " "}

RECURSIVE StringsUpTo(_)
StringsUpTo(n) ==
    IF n = 0 THEN {<<>>}
    ELSE LET shorter == StringsUpTo(n - 1)
         IN  shorter \cup {Append(s, c) : s \in {t \in shorter : Len(t) = n - 1}, c \in RawAlphabet}

\* The raw strings the specification's examples name.
RawExamples ==
    { <<"F","o","o","<","B","a","r",">">>, <<"F","o","o","[","]">>, <<"F","o","o">>, <<" "," ","F","o","o"," "," ">>, <<"i","n","t">>, <<>>, <<"F","o","o","[","]","[","]">> }

RawInputs == StringsUpTo(MaxRawLen) \cup RawExamples

\* The variables of the other parts while the normalizer runs.
\* impl Default for AppState, and no analysis spawned.
GuiIdle ==
    /\ input_value = <<>>
    /\ project_dependencies = <<>>
    /\ handle = None
    /\ notifier = FALSE
    /\ asks = 0
    /\ tasks = <<>>

FlatIdle ==
    /\ report = ClassDepsReport(<<>>, <<>>, <<>>)
    /\ flat = Pending
    /\ flat0 = Pending
    /\ how = "built"

AnalyserIdle ==
    /\ fs = <<>>
    /\ root_exists = TRUE
    /\ call = "idle"
    /\ todo = {}
    /\ dependencies = <<>>
    /\ class_file = [dir |-> "", name |-> <<>>]
    /\ class_result = NotCalled
    /\ pkg_result = NotCalled
    /\ proj_result = NotCalled
    /\ printed = 0

NormIdle ==
    /\ raw = <<>>
    /\ normalized = Pending

NormInit ==
    /\ raw \in RawInputs
    /\ normalized = Pending
    /\ FlatIdle
    /\ AnalyserIdle
    /\ GuiIdle

\* fn normalize_type(raw) -> Option<String>
Normalize ==
    /\ normalized = Pending
    /\ normalized' = normalize_type(raw)
    /\ UNCHANGED <<raw, FlatVars, AnalyserVars, GuiVars>>

NormNext == Normalize

NormSpec == NormInit /\ [][NormNext]_vars

(***************************************************************************)
(* Flattening specification: get_dependencies on a bounded report tree,    *)
(* then on the same tree with two neighbouring nested classes exchanged,   *)
(* or on the flat report made of the previous result.                      *)
(***************************************************************************)

MaxNodes == 4

\* The class_deps a class of the tree may carry: empty, unsorted, with a
\* duplicate, and with one name a prefix of another.
ClassDepsInputs ==
    { <<>>, <<<<"B">>, <<"A">>>>, <<<<"A">>, <<"A">>>>, <<<<"A","B">>, <<"B">>>> }

\* The report trees with exactly n classes / the sequences of trees with n
\* classes in all.
RECURSIVE TreesOfSize(_), ForestsOfSize(_)
TreesOfSize(n) ==
    { ClassDepsReport(<<"C">>, d, f) : d \in ClassDepsInputs, f \in ForestsOfSize(n - 1) }
ForestsOfSize(n) ==
    IF n = 0 THEN {<<>>}
    ELSE UNION { { <<t>> \o f : t \in TreesOfSize(k), f \in ForestsOfSize(n - k) } : k \in 1..n }

ReportInputs == UNION { TreesOfSize(n) : n \in 1..MaxNodes }

\* r with the nested classes i and i+1 of one of its classes exchanged.
RECURSIVE SwapsOf(_)
SwapsOf(r) ==
    LET cs == r.nested_classes
        here == { [r EXCEPT !.nested_classes =
                        [k \in 1..Len(cs) |-> IF k = i THEN cs[i + 1]
                                              ELSE IF k = i + 1 THEN cs[i] ELSE cs[k]]]
                  : i \in 1..(Len(cs) - 1) }
        below == UNION { { [r EXCEPT !.nested_classes[k] = c] : c \in SwapsOf(cs[k]) }
                         : k \in 1..Len(cs) }
    IN  here \cup below

FlatInit ==
    /\ report \in ReportInputs
    /\ flat = Pending
    /\ flat0 = Pending
    /\ how = "built"
    /\ NormIdle
    /\ AnalyserIdle
    /\ GuiIdle

\* report.get_dependencies()
Flatten ==
    /\ flat = Pending
    /\ flat' = Some(get_dependencies(report))
    /\ flat0' = IF flat0 = Pending THEN flat' ELSE flat0
    /\ UNCHANGED <<report, how, NormVars, AnalyserVars, GuiVars>>

\* The nested classes were discovered in another order.
Permute ==
    /\ flat # Pending
    /\ how # "reflattened"
    /\ \E r \in SwapsOf(report) :
          /\ r # report
          /\ report' = r
    /\ flat' = Pending
    /\ how' = "permuted"
    /\ UNCHANGED <<flat0, NormVars, AnalyserVars, GuiVars>>

\* A flat report (no nested classes) whose class_deps is the previous result.
Reflatten ==
    /\ flat # Pending
    /\ how # "reflattened"
    /\ report' = ClassDepsReport(report.class_name, flat.val, <<>>)
    /\ flat' = Pending
    /\ how' = "reflattened"
    /\ UNCHANGED <<flat0, NormVars, AnalyserVars, GuiVars>>

FlatNext == Flatten \/ Permute \/ Reflatten

FlatSpec == FlatInit /\ [][FlatNext]_vars

(***************************************************************************)
(* Analyser specification: on a bounded file tree, either one single-file  *)
(* lookup, or the package and the project aggregation one after the other  *)
(* in either order; an aggregation takes the directory entries in any      *)
(* order, one entry per step.                                              *)
(***************************************************************************)

MaxFiles == 2

FsInputs ==
    UNION { { [p \in S |-> IF p = BadEntry THEN NoEntry ELSE g[p]]
              : g \in [S \ {BadEntry} -> FileStates] }
            : S \in {T \in SUBSET (Paths \cup {BadEntry}) : Cardinality(T) <= MaxFiles} }

Init ==
    /\ \/ root_exists = TRUE /\ fs \in FsInputs
       \/ root_exists = FALSE /\ fs = <<>>
    /\ call = "idle"
    /\ todo = {}
    /\ dependencies = <<>>
    /\ class_file = [dir |-> "", name |-> <<>>]
    /\ class_result = NotCalled
    /\ pkg_result = NotCalled
    /\ proj_result = NotCalled
    /\ printed = 0
    /\ NormIdle
    /\ FlatIdle
    /\ GuiIdle

Others == <<NormVars, FlatVars, GuiVars>>

\* get_class_dependencies(file) called by itself, as main does.
ClassLookup ==
    /\ call = "idle"
    /\ class_result.tag = "NotCalled"
    /\ pkg_result.tag = "NotCalled"
    /\ proj_result.tag = "NotCalled"
    /\ root_exists
    /\ \E p \in Paths :
          /\ class_file' = p
          /\ class_result' = get_class_dependencies(fs, p)
    /\ UNCHANGED <<fs, root_exists, call, todo, dependencies, pkg_result, proj_result, printed, Others>>

\* get_package_dependencies: read_dir, or Err("Invalid folder").
PackageStart ==
    /\ call = "idle"
    /\ class_result.tag = "NotCalled"
    /\ pkg_result.tag = "NotCalled"
    /\ IF root_exists
       THEN /\ call' = "package"
            /\ todo' = ReadDirEntries(fs)
            /\ dependencies' = <<>>
            /\ UNCHANGED pkg_result
       ELSE /\ pkg_result' = Err("Invalid folder")
            /\ UNCHANGED <<call, todo, dependencies>>
    /\ UNCHANGED <<fs, root_exists, class_file, class_result, proj_result, printed, Others>>

\* get_package_dependencies: one turn of `for path in paths`; path.unwrap()
\* panics on an item that is an Err.
PackageEntry ==
    /\ call = "package"
    /\ \E entry \in todo :
          LET got == get_class_dependencies(fs, PathOf(entry))
          IN  IF entry.err
              THEN /\ pkg_result' = Panicked
                   /\ call' = "idle"
                   /\ todo' = {}
                   /\ dependencies' = <<>>
                   /\ UNCHANGED printed
              ELSE IF ~is_java_name(entry.name)
              THEN /\ todo' = todo \ {entry}
                   /\ UNCHANGED <<call, dependencies, pkg_result, printed>>
              ELSE IF got.tag = "Ok"
              THEN /\ todo' = todo \ {entry}
                   /\ dependencies' = append_class_deps(dependencies, got.classes)
                   /\ UNCHANGED <<call, pkg_result, printed>>
              ELSE IF got.tag = "Err"
              THEN /\ todo' = todo \ {entry}
                   /\ printed' = printed + 1
                   /\ UNCHANGED <<call, dependencies, pkg_result>>
              ELSE /\ pkg_result' = Panicked
                   /\ call' = "idle"
                   /\ todo' = {}
                   /\ dependencies' = <<>>
                   /\ UNCHANGED printed
    /\ UNCHANGED <<fs, root_exists, class_file, class_result, proj_result, Others>>

\* get_package_dependencies: sort, dedup, Ok(PackageDepsReport).
PackageReturn ==
    /\ call = "package"
    /\ todo = {}
    /\ pkg_result' = [tag |-> "Ok",
                      report |-> [package_name |-> <<"p","r","o","j">>,
                                  package_deps |-> Dedup(SortStrings(dependencies))]]
    /\ call' = "idle"
    /\ dependencies' = <<>>
    /\ UNCHANGED <<fs, root_exists, todo, class_file, class_result, proj_result, printed, Others>>

\* get_project_dependencies: WalkDir over the folder, errors filtered out.
ProjectStart ==
    /\ call = "idle"
    /\ class_result.tag = "NotCalled"
    /\ proj_result.tag = "NotCalled"
    /\ call' = "project"
    /\ todo' = IF root_exists THEN FilterOk(WalkDirEntries(fs)) ELSE {}
    /\ dependencies' = <<>>
    /\ UNCHANGED <<fs, root_exists, class_file, class_result, pkg_result, proj_result, printed, Others>>

\* get_project_dependencies: one turn of `for entry in WalkDir`.
ProjectEntry ==
    /\ call = "project"
    /\ \E entry \in todo :
          LET got == get_class_dependencies(fs, PathOf(entry))
          IN  IF ~(entry.is_file /\ is_java_name(entry.name))
              THEN /\ todo' = todo \ {entry}
                   /\ UNCHANGED <<call, dependencies, proj_result>>
              ELSE IF got.tag = "Ok"
              THEN /\ todo' = todo \ {entry}
                   /\ dependencies' = append_flattened(dependencies, got.classes)
                   /\ UNCHANGED <<call, proj_result>>
              ELSE /\ proj_result' = (IF got.tag = "Err" THEN got ELSE Panicked)
                   /\ call' = "idle"
                   /\ todo' = {}
                   /\ dependencies' = <<>>
    /\ UNCHANGED <<fs, root_exists, class_file, class_result, pkg_result, printed, Others>>

\* get_project_dependencies: sort, dedup, Ok(ProjectDepsReport).
ProjectReturn ==
    /\ call = "project"
    /\ todo = {}
    /\ proj_result' = [tag |-> "Ok",
                       report |-> [project_folder |-> <<"p","r","o","j">>,
                                   project_deps |-> Dedup(SortStrings(dependencies))]]
    /\ call' = "idle"
    /\ dependencies' = <<>>
    /\ UNCHANGED <<fs, root_exists, todo, class_file, class_result, pkg_result, printed, Others>>

Next ==
    \/ ClassLookup
    \/ PackageStart
    \/ PackageEntry
    \/ PackageReturn
    \/ ProjectStart
    \/ ProjectEntry
    \/ ProjectReturn

Spec == Init /\ [][Next]_vars

(***************************************************************************)
(* GUI specification (src/part02): the update handler of AppState runs on  *)
(* the UI thread, one message at a time; every AskDependency spawns an     *)
(* analysis (build_dependency_graph) that runs beside it and pushes its    *)
(* edges, one send_update at a time, to the shared project_dependencies;   *)
(* its completion comes back as DependencyReceived, which spawns           *)
(* image_generation, whose completion comes back as ImageGenerated.        *)
(* Nothing cancels a spawned analysis. Every edge carries the number of    *)
(* the AskDependency whose analysis pushed it (`task`), which the program  *)
(* does not store: it is there to state where an edge came from.           *)
(***************************************************************************)

MaxAsks == 2

\* The index of the last '.' of s, 0 if it has none.
LastDot(s) ==
    LET dots == {i \in 1..Len(s) : s[i] = "."}
    IN  IF dots = {} THEN 0 ELSE CHOOSE i \in dots : \A j \in dots : j <= i

\* Path::extension(): the text after the last '.', None when the name has no
\* '.' or only a leading one.
Extension(file_name) ==
    IF LastDot(file_name) <= 1 THEN None
    ELSE Some(SubSeq(file_name, LastDot(file_name) + 1, Len(file_name)))

\* Path::file_stem(): the name without its extension.
FileStem(file_name) ==
    IF LastDot(file_name) <= 1 THEN file_name
    ELSE SubSeq(file_name, 1, LastDot(file_name) - 1)

\* A file of a project folder: whether File::open succeeds, the package its
\* package line names, and the type strings the regular expressions capture
\* from its lines, in line order.
GuiFile(name, readable, package, captures) ==
    [name |-> name, readable |-> readable, package |-> package, captures |-> captures]

\* The folders that exist, and what can be typed in.
Folders == { <<"p","1">>, <<"p","2">> }
InputValues == Folders \cup { <<"n","o","w","h","e","r","e">> }

\* WalkDir::new(root).into_iter().filter_map(Result::ok): the files of the
\* folder, in the order of the walk.
WalkFolder(root) ==
    IF root = <<"p","1">>
    THEN << GuiFile(<<"A",".","j","a","v","a">>, TRUE, <<>>, << <<"B","<","T",">">>, <<"i","n","t">>, <<"C","[","]">> >>),
            GuiFile(<<"C",".","j","a","v","a",".","b","a","k">>, TRUE, <<>>, << <<"Z">> >>) >>
    ELSE << GuiFile(<<"n","o","t","e","s",".","t","x","t">>, TRUE, <<>>, <<>>),
            GuiFile(<<"X",".","j","a","v","a">>, TRUE, <<"q">>, << <<"Y">> >>),
            GuiFile(<<"W",".","j","a","v","a">>, FALSE, <<>>, <<>>) >>

\* let fqcn = ... in send_update
Fqcn(package, class_name) ==
    IF package = <<>> THEN class_name ELSE package \o <<".">> \o class_name

\* async fn process_java_file: the send_update calls it makes, in order, or
\* the io::Error of File::open.
process_java_file(file) ==
    LET class_name == FileStem(file.name)
        OfCapture(c) ==
            IF normalize_type(c) = None THEN <<>>
            ELSE << [fqcn |-> Fqcn(file.package, class_name), ty |-> normalize_type(c).val] >>
    IN  IF ~file.readable THEN [ok |-> FALSE, updates |-> <<>>]
        ELSE [ok |-> TRUE, updates |-> ConcatMap(OfCapture, file.captures)]

GuiInit ==
    /\ GuiIdle
    /\ NormIdle
    /\ FlatIdle
    /\ AnalyserIdle

GuiOthers == <<NormVars, FlatVars, AnalyserVars>>

\* Message::UpdateInputVal(x)
UpdateInputVal ==
    /\ \E x \in InputValues :
          /\ x # input_value
          /\ input_value' = x
    /\ UNCHANGED <<project_dependencies, handle, notifier, asks, tasks, GuiOthers>>

\* Message::AskDependency (the button is live when input_value is not empty)
AskDependency ==
    /\ input_value # <<>>
    /\ asks < MaxAsks
    /\ asks' = asks + 1
    /\ project_dependencies' = <<>>
    /\ handle' = None
    /\ tasks' = IF input_value \in Folders
                THEN Append(tasks, [id |-> asks + 1,
                                    entries |-> WalkFolder(input_value),
                                    updates |-> <<>>,
                                    stage |-> "running",
                                    res |-> "",
                                    graph |-> <<>>])
                ELSE tasks
    /\ UNCHANGED <<input_value, notifier, GuiOthers>>

\* build_dependency_graph: one turn of `for entry in WalkDir`, up to the
\* first send_update of the file.
BuildDependencyGraph(t) ==
    /\ tasks[t].stage = "running"
    /\ tasks[t].updates = <<>>
    /\ tasks[t].entries # <<>>
    /\ LET file == Head(tasks[t].entries)
           got == process_java_file(file)
       IN  tasks' =
               IF Extension(file.name) # Some(<<"j","a","v","a">>)
               THEN [tasks EXCEPT ![t].entries = Tail(@)]
               ELSE IF ~got.ok
               THEN [tasks EXCEPT ![t].entries = <<>>, ![t].stage = "done", ![t].res = "Err"]
               ELSE [tasks EXCEPT ![t].entries = Tail(@), ![t].updates = got.updates]
    /\ UNCHANGED <<input_value, project_dependencies, handle, notifier, asks, GuiOthers>>

\* async fn send_update: push under the write lock, then watcher.send(()).
SendUpdate(t) ==
    /\ tasks[t].stage = "running"
    /\ tasks[t].updates # <<>>
    /\ project_dependencies' =
           Append(project_dependencies,
                  [fqcn |-> Head(tasks[t].updates).fqcn,
                   ty |-> Head(tasks[t].updates).ty,
                   task |-> tasks[t].id])
    /\ notifier' = TRUE
    /\ tasks' = [tasks EXCEPT ![t].updates = Tail(@)]
    /\ UNCHANGED <<input_value, handle, asks, GuiOthers>>

\* build_dependency_graph: Ok(()) after the last entry.
BuildDependencyGraphReturn(t) ==
    /\ tasks[t].stage = "running"
    /\ tasks[t].updates = <<>>
    /\ tasks[t].entries = <<>>
    /\ tasks' = [tasks EXCEPT ![t].stage = "done", ![t].res = "Ok"]
    /\ UNCHANGED <<input_value, project_dependencies, handle, notifier, asks, GuiOthers>>

\* Message::DependencyReceived(_res): spawn image_generation.
DependencyReceived(t) ==
    /\ tasks[t].stage = "done"
    /\ tasks' = [tasks EXCEPT ![t].stage = "imaging"]
    /\ UNCHANGED <<input_value, project_dependencies, handle, notifier, asks, GuiOthers>>

\* async fn image_generation: the graph is built from the list as it is
\* under the read lock.
image_generation(t) ==
    /\ tasks[t].stage = "imaging"
    /\ tasks' = [tasks EXCEPT ![t].stage = "rendered", ![t].graph = project_dependencies]
    /\ UNCHANGED <<input_value, project_dependencies, handle, notifier, asks, GuiOthers>>

\* Message::ImageGenerated(res)
ImageGenerated(t) ==
    /\ tasks[t].stage = "rendered"
    /\ handle' = Some(tasks[t].graph)
    /\ tasks' = [tasks EXCEPT ![t].stage = "shown"]
    /\ UNCHANGED <<input_value, project_dependencies, notifier, asks, GuiOthers>>

\* Message::ProjectDependenciesUpdated, sent by the subscription when the
\* watch channel has changed.
ProjectDependenciesUpdated ==
    /\ notifier = TRUE
    /\ notifier' = FALSE
    /\ UNCHANGED <<input_value, project_dependencies, handle, asks, tasks, GuiOthers>>

GuiNext ==
    \/ UpdateInputVal
    \/ AskDependency
    \/ \E t \in DOMAIN tasks : BuildDependencyGraph(t)
    \/ \E t \in DOMAIN tasks : SendUpdate(t)
    \/ \E t \in DOMAIN tasks : BuildDependencyGraphReturn(t)
    \/ \E t \in DOMAIN tasks : DependencyReceived(t)
    \/ \E t \in DOMAIN tasks : image_generation(t)
    \/ \E t \in DOMAIN tasks : ImageGenerated(t)
    \/ ProjectDependenciesUpdated

GuiSpec == GuiInit /\ [][GuiNext]_vars

(***************************************************************************)
(* Reference definitions of the normalizer's steps, stated as what the     *)
(* result is and not as how it is computed.                                *)
(***************************************************************************)

Prefixes(s) == {SubSeq(s, 1, k) : k \in 0..Len(s)}

AllWhitespace(s) == \A i \in 1..Len(s) : IsWhitespace(s[i])

\* k array markers in a row: "[][]...[]"
Markers(k) == [i \in 1..(2 * k) |-> IF i % 2 = 1 THEN "[" ELSE "]"]

\* r cut at its first '<'.
RefCut(r) ==
    CHOOSE p \in Prefixes(r) :
        /\ \A i \in 1..Len(p) : p[i] # "<"
        /\ Len(p) = Len(r) \/ r[Len(p) + 1] = "<"

\* One trailing "[]" removed, if there is one.
RefStripOne(s) == IF EndsWith(s, <<"[","]">>) THEN SubSeq(s, 1, Len(s) - 2) ELSE s

\* Every trailing "[]" removed.
RefStripEvery(s) ==
    CHOOSE p \in Prefixes(s) :
        /\ ~EndsWith(p, <<"[","]">>)
        /\ \E k \in 0..Len(s) : s = p \o Markers(k)

\* s without its leading and trailing whitespace.
RefTrim(s) ==
    CHOOSE t \in {SubSeq(s, i, j) : i \in 1..(Len(s) + 1), j \in 0..Len(s)} :
        /\ t = <<>> \/ (~IsWhitespace(t[1]) /\ ~IsWhitespace(t[Len(t)]))
        /\ \E i \in 1..(Len(s) + 1), j \in 0..Len(s) :
              /\ t = SubSeq(s, i, j)
              /\ AllWhitespace(SubSeq(s, 1, i - 1))
              /\ AllWhitespace(SubSeq(s, j + 1, Len(s)))

RefResult(ty) == IF ty = <<>> \/ ty \in EXCLUDED THEN None ELSE Some(ty)

\* The examples of the specification's testable properties.
NormExamplesHold ==
    /\ raw \in {<<"F","o","o","<","B","a","r",">">>, <<"F","o","o","[","]">>, <<"F","o","o">>, <<" "," ","F","o","o"," "," ">>} => normalized = Some(<<"F","o","o">>)
    /\ raw \in {<<"i","n","t">>, <<>>} => normalized = None

\* C3 (as stated): normalize(r) is r cut at its first '<', with a trailing
\* "[]" array marker stripped (one marker), trimmed, and none when the result
\* is empty or excluded; the named examples give some("Foo") and none.
C3_NormalizeStripsOneMarker ==
    normalized # Pending =>
        /\ normalized = RefResult(RefTrim(RefStripOne(RefCut(raw))))
        /\ NormExamplesHold

\* C3 (amended): normalize(r) is r cut at its first '<', with every trailing
\* "[]" array marker stripped (so "Foo[][]" gives some("Foo")), trimmed, and
\* none when the result is empty or excluded; the named examples hold.
C3_NormalizeStripsEveryMarker ==
    normalized # Pending =>
        /\ normalized = RefResult(RefTrim(RefStripEvery(RefCut(raw))))
        /\ NormExamplesHold

\* A raw string with leading whitespace, an array marker and a generic
\* suffix has been normalized.
C3_Witness ==
    /\ raw = <<" ","F","[","]","<">>
    /\ normalized = Some(<<"F">>)

(***************************************************************************)
(* Flattening: what the result must be.                                    *)
(***************************************************************************)

StrictlyAscending(s) == \A i \in 1..(Len(s) - 1) : StrLess(s[i], s[i + 1])

\* The dependency names of a report and of its nested classes at every depth.
RECURSIVE AllDeps(_)
AllDeps(r) ==
    Range(r.class_deps) \cup UNION { AllDeps(r.nested_classes[k]) : k \in 1..Len(r.nested_classes) }

\* Some nested class of the report has nested classes of its own.
DeepNested(r) ==
    \E k \in 1..Len(r.nested_classes) : r.nested_classes[k].nested_classes # <<>>

\* C5: get_dependencies returns a strictly ascending (hence duplicate-free)
\* list whose elements are exactly the class_deps of the report and of all
\* its nested classes at every depth; for a report without nested classes
\* that is its own class_deps sorted and deduplicated; and flattening the flat
\* report made of a previous result returns that result.
C5_FlattenIsSortedUnion ==
    flat # Pending =>
        /\ StrictlyAscending(flat.val)
        /\ Range(flat.val) = AllDeps(report)
        /\ report.nested_classes = <<>> => Range(flat.val) = Range(report.class_deps)
        /\ how = "reflattened" => flat.val = report.class_deps /\ flat = flat0

\* A tree with classes nested two deep whose lists repeat a name has been
\* flattened.
C5_Witness ==
    /\ flat # Pending
    /\ how = "built"
    /\ DeepNested(report)
    /\ report.class_deps = <<<<"A">>, <<"A">>>>
    /\ Len(flat.val) = 3

\* The flat report made of a previous result has been flattened again.
C5_WitnessIdempotent ==
    /\ flat # Pending
    /\ how = "reflattened"
    /\ Len(flat.val) = 3

\* C6: get_dependencies returns the same list whatever the order of the
\* nested_classes sequences, at any level of the tree.
C6_FlattenOrderIndependent ==
    (flat # Pending /\ how = "permuted") => flat = flat0

\* Two nested classes with different lists, below the top level, were
\* exchanged and the tree flattened again.
C6_Witness ==
    /\ flat # Pending
    /\ how = "permuted"
    /\ \E k \in 1..Len(report.nested_classes) :
          LET cs == report.nested_classes[k].nested_classes
          IN  Len(cs) = 2 /\ cs[1].class_deps = <<<<"B">>, <<"A">>>> /\ cs[2].class_deps = <<<<"A","B">>, <<"B">>>>
    /\ Len(flat.val) = 3

(***************************************************************************)
(* Aggregation: what the reports must be.                                  *)
(***************************************************************************)

\* The reports of a vector of class reports and of their nested classes.
RECURSIVE AllReports(_)
AllReports(classes) ==
    UNION { {classes[k]} \cup AllReports(classes[k].nested_classes) : k \in 1..Len(classes) }

\* The file at p is read and parsed: get_class_dependencies returns its reports.
Analysable(f, p) == get_class_dependencies(f, p).tag = "Ok"

ReportsOf(f, p) == get_class_dependencies(f, p).classes

\* The name has the source-language extension.
HasJavaExtension(name) == EndsWith(name, <<".","j","a","v","a">>)

\* The own class_deps of the top-level classes of the file at p.
OwnDepsOf(f, p) ==
    UNION { Range(ReportsOf(f, p)[k].class_deps) : k \in 1..Len(ReportsOf(f, p)) }

\* The class_deps of the nested classes, at every depth, of the file at p.
NestedDepsOf(f, p) ==
    UNION { UNION { AllDeps(ReportsOf(f, p)[k].nested_classes[j])
                    : j \in 1..Len(ReportsOf(f, p)[k].nested_classes) }
            : k \in 1..Len(ReportsOf(f, p)) }

\* The files the two aggregations hand to get_class_dependencies and get
\* reports for.
ScannedByPackage(f) ==
    {p \in DOMAIN f : p.dir = "root" /\ is_java_name(p.name) /\ Analysable(f, p)}
ScannedByProject(f) ==
    {p \in DOMAIN f : is_java_name(p.name) /\ Analysable(f, p)}

\* The files an aggregation hands to get_class_dependencies and gets an Err for.
FailedInPackage(f) ==
    {p \in DOMAIN f : p.dir = "root" /\ is_java_name(p.name)
                      /\ get_class_dependencies(f, p).tag = "Err"}
FailedInProject(f) ==
    {p \in DOMAIN f : is_java_name(p.name) /\ get_class_dependencies(f, p).tag = "Err"}

\* The texts that are not valid source: the parser returns no tree, or a tree
\* with an ERROR node.
Malformed == {"NoTree", "Broken"}

C2_NoPrimitiveOrKeywordInClassDeps ==
    class_result.tag = "Ok" =>
        \A r \in AllReports(class_result.classes) : Range(r.class_deps) \cap EXCLUDED = {}

\* The file with int, int[], long and void types has been analysed.
C2_Witness ==
    /\ class_result.tag = "Ok"
    /\ class_file \in DOMAIN fs
    /\ fs[class_file].text = "Mix"
    /\ Len(class_result.classes) = 1
    /\ Len(class_result.classes[1].nested_classes) = 1

\* C4 (as stated): every in-class entry of class_deps is in normalized form
\* (no generic suffix, no array marker), and the file of scenario B gives
\* both "java.util.List" and "List".
C4_InClassDepsAreNormalized ==
    class_result.tag = "Ok" =>
        LET imports == Range(collect_file_imports(ParseTree(fs[class_file].text)))
        IN  /\ \A r \in AllReports(class_result.classes) :
                  \A d \in Range(r.class_deps) \ imports : normalize_type(d) = Some(d)
            /\ fs[class_file].text = "List" =>
                  {<<"j","a","v","a",".","u","t","i","l",".","L","i","s","t">>, <<"L","i","s","t">>} \subseteq Range(class_result.classes[1].class_deps)

C8_PackageIsUnionOfOwnDeps ==
    pkg_result.tag = "Ok" =>
        /\ StrictlyAscending(pkg_result.report.package_deps)
        /\ Range(pkg_result.report.package_deps)
              = UNION { OwnDepsOf(fs, p) :
                        p \in {q \in DOMAIN fs : /\ q.dir = "root"
                                                 /\ HasJavaExtension(q.name)
                                                 /\ Analysable(fs, q)} }

\* C9 (as stated): with a source file that cannot be opened or read (and
\* every other file parsed), both aggregations return Ok, with exactly the
\* dependencies of the files that were read.
C9_UnreadableFileDoesNotAbort ==
    ( /\ \E p \in DOMAIN fs : HasJavaExtension(p.name) /\ fs[p].status # "ok"
      /\ \A p \in DOMAIN fs : fs[p].status = "ok" => fs[p].text # "NoTree" )
    => /\ pkg_result.tag # "NotCalled" =>
             /\ pkg_result.tag = "Ok"
             /\ Range(pkg_result.report.package_deps)
                   = UNION { OwnDepsOf(fs, p) : p \in ScannedByPackage(fs) }
       /\ proj_result.tag # "NotCalled" =>
             /\ proj_result.tag = "Ok"
             /\ Range(proj_result.report.project_deps)
                   = UNION { OwnDepsOf(fs, p) \cup NestedDepsOf(fs, p) : p \in ScannedByProject(fs) }

\* f without the files in S.
Without(f, S) == [p \in DOMAIN f \ S |-> f[p]]

RECURSIVE SeqOfSet(_)
SeqOfSet(S) ==
    IF S = {} THEN <<>>
    ELSE LET x == CHOOSE y \in S : TRUE IN <<x>> \o SeqOfSet(S \ {x})

\* What get_package_dependencies returns on the file tree f when no file
\* panics.
PackageValue(f) ==
    LET Own(p) == append_class_deps(<<>>, ReportsOf(f, p))
    IN  [tag |-> "Ok",
         report |-> [package_name |-> <<"p","r","o","j">>,
                     package_deps |-> Dedup(SortStrings(ConcatMap(Own, SeqOfSet(ScannedByPackage(f)))))]]

\* The package half of C10: with failing files, the value returned differs
\* from the one returned for the same tree without them.
PackageResultShowsFailures ==
    (pkg_result.tag = "Ok" /\ FailedInPackage(fs) # {})
        => pkg_result # PackageValue(Without(fs, FailedInPackage(fs)))

\* The project half of C10: with failing files (and none that panics), the
\* value returned is still a report.
ProjectResultKeepsPartialReport ==
    ( /\ proj_result.tag # "NotCalled"
      /\ FailedInProject(fs) # {}
      /\ \A p \in DOMAIN fs : fs[p].text # "NoTree" )
    => proj_result.tag = "Ok"

\* C10 (as stated): when files fail during a package or project aggregation,
\* the value returned carries the partial report and, with it, the failures.
C10_FailuresAreInTheResult ==
    /\ PackageResultShowsFailures
    /\ ProjectResultKeepsPartialReport

(***************************************************************************)
(* The two aggregation loops run over the directory entries in one given   *)
(* order, to the value returned.                                           *)
(***************************************************************************)

\* get_package_dependencies on the entries in the order given.
RECURSIVE PackageInOrder(_, _, _)
PackageInOrder(f, entries, deps) ==
    IF entries = <<>>
    THEN [tag |-> "Ok",
          report |-> [package_name |-> <<"p","r","o","j">>,
                      package_deps |-> Dedup(SortStrings(deps))]]
    ELSE LET entry == Head(entries)
             got == get_class_dependencies(f, PathOf(entry))
         IN  IF entry.err THEN Panicked
             ELSE IF ~is_java_name(entry.name) THEN PackageInOrder(f, Tail(entries), deps)
             ELSE IF got.tag = "Ok"
             THEN PackageInOrder(f, Tail(entries), append_class_deps(deps, got.classes))
             ELSE IF got.tag = "Err" THEN PackageInOrder(f, Tail(entries), deps)
             ELSE Panicked

\* get_project_dependencies on the entries in the order given.
RECURSIVE ProjectInOrder(_, _, _)
ProjectInOrder(f, entries, deps) ==
    IF entries = <<>>
    THEN [tag |-> "Ok",
          report |-> [project_folder |-> <<"p","r","o","j">>,
                      project_deps |-> Dedup(SortStrings(deps))]]
    ELSE LET entry == Head(entries)
             got == get_class_dependencies(f, PathOf(entry))
         IN  IF ~(entry.is_file /\ is_java_name(entry.name))
             THEN ProjectInOrder(f, Tail(entries), deps)
             ELSE IF got.tag = "Ok"
             THEN ProjectInOrder(f, Tail(entries), append_flattened(deps, got.classes))
             ELSE IF got.tag = "Err" THEN got
             ELSE Panicked

\* The package half of C11: whatever the order the entries were taken in,
\* get_package_dependencies returned what it returns for one fixed order.
PackageResultIsOrderIndependent ==
    (pkg_result.tag # "NotCalled" /\ root_exists)
        => pkg_result = PackageInOrder(fs, SeqOfSet(ReadDirEntries(fs)), <<>>)

\* The project half of C11, for get_project_dependencies.
ProjectResultIsOrderIndependent ==
    (proj_result.tag # "NotCalled" /\ root_exists)
        => proj_result = ProjectInOrder(fs, SeqOfSet(FilterOk(WalkDirEntries(fs))), <<>>)

\* The project half again, for file trees where at most one source file
\* fails.
ProjectResultIsOrderIndependentUpToOneFailure ==
    Cardinality({p \in DOMAIN fs : is_java_name(p.name) /\ ~Analysable(fs, p)}) <= 1
        => ProjectResultIsOrderIndependent

\* C11 (as stated): for any set of files, failing ones included, and any two
\* orders of enumeration, get_package_dependencies and
\* get_project_dependencies return the same result: each returns what it
\* returns for one fixed order of the entries.
C11_ResultIsOrderIndependent ==
    /\ PackageResultIsOrderIndependent
    /\ ProjectResultIsOrderIndependent

(***************************************************************************)
(* The shape of the report tree against the shape of the syntax tree.      *)
(***************************************************************************)

\* The class declarations among the nodes of s, in their order.
RECURSIVE ClassDeclarations(_)
ClassDeclarations(s) ==
    IF s = <<>> THEN <<>>
    ELSE IF Head(s).kind = "class_declaration" THEN <<Head(s)>> \o ClassDeclarations(Tail(s))
    ELSE ClassDeclarations(Tail(s))

\* reports has one report per class declaration that is a direct named child
\* of node, in source order and under its name, and the same holds between
\* the nested_classes of each report and the body of its declaration.
RECURSIVE MirrorsNesting(_, _)
MirrorsNesting(reports, node) ==
    LET decls == ClassDeclarations(NamedChildNodes(node))
    IN  /\ Len(reports) = Len(decls)
        /\ \A k \in 1..Len(decls) :
              /\ reports[k].class_name = FieldNode(decls[k], "name").text
              /\ MirrorsNesting(reports[k].nested_classes, FieldNode(decls[k], "body"))

\* The number of classes on the longest chain of nested reports.
RECURSIVE Depth(_)
Depth(reports) ==
    IF reports = <<>> THEN 0
    ELSE 1 + Depth(ConcatMap(LAMBDA r : r.nested_classes, reports))

\* The report of scenario A.
ScenarioA ==
    << ClassDepsReport(<<"O","u","t","e","r">>, <<<<"I","n","n","e","r">>>>,
                       << ClassDepsReport(<<"I","n","n","e","r">>, <<<<"S","t","r","i","n","g">>>>, <<>>) >>) >>

\* C12: the reports get_class_dependencies returns mirror the nesting of the
\* class declarations of the file, one report per declaration, in source
\* order, to any depth; the file of scenario A gives Outer with class_deps
\* ["Inner"] and the nested report Inner with class_deps ["String"].
C12_ReportTreeMirrorsNesting ==
    class_result.tag = "Ok" =>
        /\ MirrorsNesting(class_result.classes, ParseTree(fs[class_file].text))
        /\ fs[class_file].text = "Outer" => class_result.classes = ScenarioA

\* The file with two top-level classes, three levels of nesting and a class
\* inside an interface inside a class has been analysed.
C12_Witness ==
    /\ class_result.tag = "Ok"
    /\ fs[class_file].text = "Deep"
    /\ Len(class_result.classes) = 2
    /\ Depth(class_result.classes) = 3
    /\ class_result.classes[1].class_name = <<"P">>
    /\ Len(class_result.classes[1].nested_classes) = 1
    /\ class_result.classes[2].class_name = <<"S">>

\* The paths of the import declarations of the file the single-file lookup
\* was made on.
FileImports == Range(collect_file_imports(ParseTree(fs[class_file].text)))

\* The top-level half of C13: every report of a top-level class has every
\* import path of the file in class_deps.
TopLevelReportsHaveImports ==
    class_result.tag = "Ok" =>
        \A k \in 1..Len(class_result.classes) :
            FileImports \subseteq Range(class_result.classes[k].class_deps)

\* C13 (as stated): every report produced from a file, top-level or nested at
\* any depth, has the path of every import declaration of the file in
\* class_deps.
C13_ImportsAreInEveryClass ==
    class_result.tag = "Ok" =>
        \A r \in AllReports(class_result.classes) : FileImports \subseteq Range(r.class_deps)

\* The in-class half of C14: what collect_class_dependencies and
\* filter_dependencies give for a class, i.e. class_deps after the import
\* paths at its front, is in ascending order without duplicates.
InClassPartIsSorted ==
    class_result.tag = "Ok" =>
        \A k \in 1..Len(class_result.classes) :
            LET class_deps == class_result.classes[k].class_deps
                imports == collect_file_imports(ParseTree(fs[class_file].text))
            IN  StrictlyAscending(SubSeq(class_deps, Len(imports) + 1, Len(class_deps)))

\* C14 (as stated): in every report produced by extraction, class_deps
\* (imports and in-class references together) is in ascending order and has
\* no value twice, also when an import path equals an in-class type name.
C14_ClassDepsSortedAndDeduplicated ==
    class_result.tag = "Ok" =>
        \A r \in AllReports(class_result.classes) : StrictlyAscending(r.class_deps)

(***************************************************************************)
(* What the aggregations return against what they return for the file     *)
(* tree that holds the source files only.                                  *)
(***************************************************************************)

\* The files of f whose name has the source-language extension.
SourceFiles(f) == {p \in DOMAIN f : HasJavaExtension(p.name)}

\* f with nothing but its source files.
SourcesOnly(f) == Without(f, DOMAIN f \ SourceFiles(f))

\* Every source file of f is read and parsed.
AllSourcesAnalysable(f) == \A p \in SourceFiles(f) : Analysable(f, p)

\* Both aggregations, once returned, returned what they return for the tree
\* with the source files only: nothing else was handed to
\* get_class_dependencies and nothing else ended the walk.
OnlySourcesCount ==
    /\ (pkg_result.tag # "NotCalled" /\ root_exists)
          => pkg_result = PackageInOrder(SourcesOnly(fs),
                                         SeqOfSet(ReadDirEntries(SourcesOnly(fs))), <<>>)
    /\ (proj_result.tag # "NotCalled" /\ root_exists)
          => proj_result = ProjectInOrder(SourcesOnly(fs),
                                          SeqOfSet(WalkDirEntries(SourcesOnly(fs))), <<>>)

\* The extension half of C15: a file whose name has ".java" elsewhere than
\* at its end is not processed.
OtherExtensionIsNotProcessed ==
    (AllSourcesAnalysable(fs) /\ BadEntry \notin DOMAIN fs) => OnlySourcesCount

\* The traversal half of C15: an entry that errors during traversal is
\* skipped and the walk goes on.
TraversalErrorIsSkipped ==
    ( /\ AllSourcesAnalysable(fs)
      /\ BadEntry \in DOMAIN fs
      /\ \A p \in DOMAIN fs \ {BadEntry} : HasJavaExtension(p.name) )
    => OnlySourcesCount

\* The traversal half for get_project_dependencies alone.
TraversalErrorIsSkippedByProject ==
    ( /\ AllSourcesAnalysable(fs)
      /\ BadEntry \in DOMAIN fs
      /\ \A p \in DOMAIN fs \ {BadEntry} : HasJavaExtension(p.name)
      /\ proj_result.tag # "NotCalled"
      /\ root_exists )
    => proj_result = ProjectInOrder(SourcesOnly(fs),
                                    SeqOfSet(WalkDirEntries(SourcesOnly(fs))), <<>>)

\* C15 (as stated): package and project aggregation hand to
\* get_class_dependencies only the files whose extension is .java, never a
\* file that has that text elsewhere in its name, and skip the entries that
\* error during traversal: with every source file analysable, both return
\* what they return for the tree with the source files only.
C15_OnlyJavaExtensionIsProcessed ==
    AllSourcesAnalysable(fs) => OnlySourcesCount

(***************************************************************************)
(* Where the edges of the shared list and of the diagrams came from.       *)
(***************************************************************************)

\* Every edge in the shared list was pushed by the analysis of the latest
\* AskDependency.
ListHoldsLatestAnalysisOnly ==
    \A i \in 1..Len(project_dependencies) : project_dependencies[i].task = asks

\* Every diagram generated on a DependencyReceived is built from edges of
\* the analysis that completed only.
DiagramIsOfCompletedAnalysis ==
    \A t \in DOMAIN tasks :
        tasks[t].stage \in {"rendered", "shown"}
            => \A i \in 1..Len(tasks[t].graph) : tasks[t].graph[i].task = tasks[t].id

\* C16 (as stated): under any interleaving of UI messages and analysis
\* steps, project_dependencies only ever holds edges of the most recently
\* requested analysis, and the diagram generated on DependencyReceived is
\* built only from the edges of the analysis that completed.
C16_OnlyLatestAnalysisInList ==
    /\ ListHoldsLatestAnalysisOnly
    /\ DiagramIsOfCompletedAnalysis

\* C16 for the runs with one AskDependency.
SingleAnalysisOwnsList ==
    asks <= 1 => C16_OnlyLatestAnalysisInList

\* The walk of the GUI (build_dependency_graph) does test the extension: no
\* edge comes from C.java.bak, whose only captured type is "Z".
GuiWalkSkipsOtherExtensions ==
    \A i \in 1..Len(project_dependencies) :
        /\ project_dependencies[i].ty # <<"Z">>
        /\ project_dependencies[i].fqcn \in { <<"A">>, <<"q",".","X">> }

====
